---- MODULE Spec2Model ----
(***************************************************************************)
(* Session Store (AuthProvider) and Cart Store (CartProvider) of the       *)
(* storefront, together with the parts of the hosted backend they talk to  *)
(* (auth session, profiles.role, cart_items).                              *)
(*                                                                         *)
(* The repository holds several versions of the two providers; `build`     *)
(* says which one is mounted:                                              *)
(*   "ctx" : src/src/contexts/AuthContext.tsx + CartContext.tsx            *)
(*   "p3"  : src/unnamed/part_003 (AuthProvider lines 15-76,               *)
(*           CartProvider lines 114-256)                                   *)
(*   "p2"  : src/unnamed/part_002 AuthProvider, with CartContext.tsx       *)
(* React 18 (createRoot) batches the state updates one synchronous run of  *)
(* a callback makes, and flushes the effects of the resulting render       *)
(* before the next event is handled: one action = one such run plus the    *)
(* effects of its render.                                                  *)
(***************************************************************************)
EXTENDS Integers, Sequences, FiniteSets, Bags, TLC

\* ---------------------------------------------------------------- bounds
MaxVer == 1        \* session objects the auth client issues after the cached one
MaxInFlight == 2   \* notifications, role lookups and cart requests under way
                   \* when the user or the auth client starts one more
MaxQty == 2        \* largest quantity addItem is asked to reach
MaxOrders == 1     \* checkout submissions that save an order
MaxRev == 2        \* revisions a category row or a stored image goes through
MaxOpsInFlight == 1  \* as MaxInFlight, where all cart operations are explored

\* ------------------------------------------------------------- constants
Users == {"u1", "u2"}
Products == {"P1", "P2"}
ProductOrder == <<"P1", "P2">>
Builds == {"ctx", "p2", "p3"}
NULL == "null"
ERR == "error"

\* a Session object; `ver` is the identity of the JavaScript object
NoSession == [uid |-> "none", ver |-> 0]
SessionObj(u, v) == [uid |-> u, ver |-> v]

\* profiles.role of each account
ProfileRole(u) == IF u = "u1" THEN "admin" ELSE "user"

\* products.price of the sample products (whole currency units)
Price(p) == IF p = "P1" THEN 45 ELSE 52

\* the quantities updateQuantity is called with
Quantities == -1..MaxQty

Categories == {"birthday-cakes"}
Paths == {"a.png"}

\* what one role lookup can return: the stored role, or an error
RoleResults(u) == {ProfileRole(u), ERR}

VARIABLES
  build,        \* which version of the providers is mounted
  cartMounted,  \* whether CartProvider is mounted under AuthProvider
  accounts,     \* auth.users: the registered accounts
  user,         \* AuthProvider state: session.user (same object identity as session)
  session,      \* AuthProvider state
  role,         \* AuthProvider state: NULL, "user" or "admin"
  loading,      \* AuthProvider state
  authSession,  \* the auth client's current session (supabase.auth)
  nextVer,      \* next fresh session object
  notifQ,       \* notifications not yet handed to the callback
  roleCalls,    \* callbacks suspended in their role lookup
  checkPc,      \* the initial getSession() check of p2 / p3
  soPending,    \* signOut() calls awaiting supabase.auth.signOut()
  items,        \* CartProvider state: sequence of [id, quantity]
  cartLoading,  \* CartProvider state (`cartLoading` / `loading`)
  cartCalls,    \* cart_items requests in flight
  toast,        \* the toast the last step raised ("none": it raised none)
  cartDb,       \* table cart_items: user -> product -> quantity (0 = no row)
  orders,       \* tables orders / order_items: the orders saved, with their lines
  profiles,     \* table profiles: user -> role ("none" = no row)
  products,     \* table products: product -> price (0 = no row)
  categories,   \* table categories: category -> revision of its row (0 = no row)
  images,       \* bucket product-images: path -> revision of the object (0 = none)
  reply,        \* what the backend answered to the last direct table / storage write
  adminLogin    \* the AdminLogin page: where its handleLogin stands, what it did

authState == <<user, session, role, loading>>
clientCart == <<items, cartLoading, cartCalls>>
authEnv == <<authSession, nextVer, notifQ, roleCalls, checkPc, soPending>>
vars == <<build, cartMounted, accounts, user, session, role, loading, authSession, nextVer, notifQ,
          roleCalls, checkPc, soPending, items, cartLoading, cartCalls, toast,
          cartDb, orders, profiles, products, categories, images, reply, adminLogin>>
backend == <<orders, profiles, products, categories, images, reply>>
NoReply == [caller |-> "none", on |-> "none", op |-> "none", status |-> "none"]

\* AdminLogin before its form is submitted
NoAdminLogin ==
  [pc |-> "idle", sess |-> NoSession, role |-> "none", nav |-> "none", error |-> "none"]

EmptyCart == [p \in Products |-> 0]
PriorCart == [p \in Products |-> 1]

\* the tables as the migrations leave them, with a profile per registered account
SeededBackend ==
  /\ orders = <<>>
  /\ profiles = [u \in Users |-> IF u \in accounts THEN ProfileRole(u) ELSE "none"]
  /\ products = [p \in Products |-> Price(p)]
  /\ categories = [c \in Categories |-> 1]
  /\ images = [f \in Paths |-> 0]
  /\ reply = NoReply

\* ------------------------------------------------------------------ Init
Init ==
  /\ build \in {"ctx", "p3"}
  /\ cartMounted = TRUE
  /\ accounts = {"u2"}
  /\ user = NoSession
  /\ session = NoSession
  /\ role = NULL
  /\ loading = TRUE
  /\ authSession \in {NoSession} \cup {SessionObj(u, 0) : u \in accounts}
  /\ nextVer = 1
  /\ notifQ = <<authSession>>
  /\ roleCalls = {}
  /\ checkPc = IF build = "ctx" THEN "none" ELSE "getSession"
  /\ soPending = 0
  /\ items = <<>>
  /\ cartLoading = (build # "p3")
  /\ cartCalls = EmptyBag
  /\ toast = "none"
  /\ cartDb \in [Users -> {EmptyCart, PriorCart}]
  /\ \A u \in Users \ accounts : cartDb[u] = EmptyCart
  /\ SeededBackend
  /\ adminLogin = NoAdminLogin

\* AuthProvider mounted alone: CartProvider reads the Session Store and never
\* writes it, so the Session Store's own behaviour is the same without it
InitAuth ==
  /\ build \in Builds
  /\ cartMounted = FALSE
  /\ accounts = Users
  /\ user = NoSession
  /\ session = NoSession
  /\ role = NULL
  /\ loading = TRUE
  /\ authSession \in {NoSession} \cup {SessionObj(u, 0) : u \in accounts}
  /\ nextVer = 1
  /\ notifQ = <<authSession>>
  /\ roleCalls = {}
  /\ checkPc = IF build = "ctx" THEN "none" ELSE "getSession"
  /\ soPending = 0
  /\ items = <<>>
  /\ cartLoading = TRUE
  /\ cartCalls = EmptyBag
  /\ toast = "none"
  /\ cartDb = [u \in Users |-> EmptyCart]
  /\ SeededBackend
  /\ adminLogin = NoAdminLogin

\* ------------------------------------------------------- cart helpers
\* items.find(i => i.id === id)?.quantity || 0
QuantityOf(its, id) ==
  LET hits == {i \in 1..Len(its) : its[i].id = id}
  IN IF hits = {} THEN 0 ELSE its[CHOOSE i \in hits : \A j \in hits : i <= j].quantity

HasLine(its, id) == \E i \in 1..Len(its) : its[i].id = id

\* data.map(item => ({id: item.product_id, quantity: item.quantity, ...}))
RECURSIVE fetchedItems(_, _)
fetchedItems(cart, k) ==
  IF k > Len(ProductOrder) THEN <<>>
  ELSE LET p == ProductOrder[k]
       IN (IF cart[p] > 0 THEN <<[id |-> p, quantity |-> cart[p]]>> ELSE <<>>)
          \o fetchedItems(cart, k + 1)

\* an upsert that adds the new quantity to the stored one
RECURSIVE upsertRows_sums(_, _)
upsertRows_sums(cart, rows) ==
  IF rows = <<>> THEN cart
  ELSE upsertRows_sums([cart EXCEPT ![Head(rows).id] = @ + Head(rows).quantity], Tail(rows))

\* an upsert of several rows that stores the first row and rejects the rest
upsertRows_firstOnly(cart, rows) ==
  IF rows = <<>> THEN cart
  ELSE [cart EXCEPT ![Head(rows).id] = Head(rows).quantity]

\* upsert(rows, {onConflict: 'user_id, product_id'}) on one user's rows
RECURSIVE upsertRows(_, _)
upsertRows(cart, rows) ==
  IF rows = <<>> THEN cart
  ELSE upsertRows([cart EXCEPT ![Head(rows).id] = Head(rows).quantity], Tail(rows))

\* a request to cart_items; cartCalls is the bag of those in flight
\* (st: "sent" until the backend has executed it, then "ok"; a request the
\* backend rejects changes nothing there, so its { error } is delivered from "sent")
Call(op, uid, rows, upd) ==
  [op |-> op, uid |-> uid, rows |-> rows, upd |-> upd, st |-> "sent", data |-> <<>>]
Sent(c) == cartCalls (+) SetToBag({c})
Done(c) == cartCalls (-) SetToBag({c})
Calls == BagToSet(cartCalls)

\* what is under way: queued notifications, suspended callbacks, requests
InFlight ==
  Len(notifQ) + Cardinality(roleCalls) + BagCardinality(cartCalls) + soPending
    + (IF checkPc = "getSession" THEN 1 ELSE 0)

\* -------------------------------------- CartProvider effects on a render
\* part_003 lines 168-181, deps [user, session, fetchCart, mergeAndClearLocalCart]
CartEffect_p3(u2, s2) ==
  IF u2 = user /\ s2 = session
  THEN UNCHANGED clientCart
  ELSE IF u2 # NoSession /\ s2 # NoSession
  THEN IF Len(items) > 0
       THEN \* mergeAndClearLocalCart(localCart), up to its await
            /\ cartCalls' = Sent(Call("merge", u2.uid, items, <<>>))
            /\ UNCHANGED <<items, cartLoading>>
       ELSE \* fetchCart(), up to its await
            /\ cartLoading' = TRUE
            /\ cartCalls' = Sent(Call("fetch", u2.uid, <<>>, <<>>))
            /\ UNCHANGED items
  ELSE /\ items' = <<>>
       /\ cartLoading' = FALSE
       /\ UNCHANGED cartCalls

\* the effect of CartContext.tsx without setItems([]) in its last branch
CartEffect_keepsItems(u2, l2) ==
  IF u2 = user /\ l2 = loading
  THEN UNCHANGED clientCart
  ELSE IF l2
  THEN /\ cartLoading' = TRUE
       /\ UNCHANGED <<items, cartCalls>>
  ELSE IF u2 # NoSession
  THEN /\ cartLoading' = TRUE
       /\ cartCalls' = Sent(Call("fetch", u2.uid, <<>>, <<>>))
       /\ UNCHANGED items
  ELSE /\ cartLoading' = FALSE
       /\ UNCHANGED <<items, cartCalls>>

\* CartContext.tsx lines 37-78, deps [user, authLoading]
CartEffect(u2, l2) ==
  IF u2 = user /\ l2 = loading
  THEN UNCHANGED clientCart
  ELSE IF l2
  THEN /\ cartLoading' = TRUE
       /\ UNCHANGED <<items, cartCalls>>
  ELSE IF u2 # NoSession
  THEN \* fetchUserCart(), up to its await
       /\ cartLoading' = TRUE
       /\ cartCalls' = Sent(Call("fetch", u2.uid, <<>>, <<>>))
       /\ UNCHANGED items
  ELSE /\ items' = <<>>
       /\ cartLoading' = FALSE
       /\ UNCHANGED cartCalls

\* One render: the new AuthProvider state, then the CartProvider effect
Commit(u2, s2, r2, l2) ==
  /\ user' = u2
  /\ session' = s2
  /\ role' = r2
  /\ loading' = l2
  /\ IF ~cartMounted THEN UNCHANGED clientCart
     ELSE IF build = "p3" THEN CartEffect_p3(u2, s2) ELSE CartEffect(u2, l2)

NoRender == UNCHANGED <<authState, clientCart>>

RoleOf(res) == IF res = ERR THEN NULL ELSE res

\* ------------------------------------------------- the auth client (env)
\* Login.handleLogin: signInWithPassword succeeds
handleLogin(u) ==
  /\ u \in accounts
  /\ ~loading /\ user = NoSession
  /\ nextVer <= MaxVer
  /\ InFlight < MaxInFlight
  /\ authSession' = SessionObj(u, nextVer)
  /\ nextVer' = nextVer + 1
  /\ notifQ' = Append(notifQ, authSession')
  /\ NoRender /\ UNCHANGED <<adminLogin, backend, build, cartMounted, accounts, cartDb, roleCalls, checkPc, soPending>>
  /\ toast' = "none"

\* the auth client refreshes the token of the current session
TokenRefreshed ==
  /\ authSession # NoSession
  /\ nextVer <= MaxVer
  /\ InFlight < MaxInFlight
  /\ authSession' = SessionObj(authSession.uid, nextVer)
  /\ nextVer' = nextVer + 1
  /\ notifQ' = Append(notifQ, authSession')
  /\ NoRender /\ UNCHANGED <<adminLogin, backend, build, cartMounted, accounts, cartDb, roleCalls, checkPc, soPending>>
  /\ toast' = "none"

\* AuthProvider.signOut, up to its await
signOut ==
  /\ user # NoSession
  /\ InFlight < MaxInFlight
  /\ authSession' = NoSession
  /\ notifQ' = Append(notifQ, NoSession)
  /\ soPending' = soPending + 1
  /\ NoRender /\ UNCHANGED <<adminLogin, backend, build, cartMounted, accounts, cartDb, nextVer, roleCalls, checkPc>>
  /\ toast' = "none"

\* AuthProvider.signOut, after its await (AuthContext.tsx, part_003)
signOutReturn ==
  /\ build \in {"ctx", "p3"}
  /\ soPending > 0
  /\ soPending' = soPending - 1
  /\ NoRender /\ UNCHANGED <<adminLogin, backend, build, cartMounted, accounts, cartDb, authSession, nextVer, notifQ, roleCalls, checkPc>>
  /\ toast' = "none"

\* AuthProvider.signOut, after its await (part_002)
signOutReturn_p2 ==
  /\ build = "p2"
  /\ soPending > 0
  /\ soPending' = soPending - 1
  /\ Commit(NoSession, NoSession, NULL, loading)
  /\ UNCHANGED <<adminLogin, backend, build, cartMounted, accounts, cartDb, authSession, nextVer, notifQ, roleCalls, checkPc>>
  /\ toast' = "none"

\* ------------------------------------------- AuthContext.tsx ("ctx")
onAuthStateChange ==
  /\ build = "ctx"
  /\ notifQ # <<>>
  /\ LET s == Head(notifQ) IN
       /\ notifQ' = Tail(notifQ)
       /\ IF s # NoSession
            THEN /\ Commit(s, s, role, loading)
                 /\ roleCalls' = roleCalls \cup {[src |-> "notif", sess |-> s]}
            ELSE /\ Commit(NoSession, NoSession, NULL, FALSE)
                 /\ UNCHANGED roleCalls
  /\ UNCHANGED <<adminLogin, backend, build, cartMounted, accounts, cartDb, authSession, nextVer, checkPc, soPending>>
  /\ toast' = "none"
\* the callback returning early from its error branch (no setLoading(false))
onAuthStateChangeResume_returnsOnError(c, res) ==
  /\ build = "ctx"
  /\ c \in roleCalls
  /\ roleCalls' = roleCalls \ {c}
  /\ Commit(user, session, IF res = ERR THEN NULL ELSE res,
            IF res = ERR THEN loading ELSE FALSE)
  /\ toast' = "none"
  /\ UNCHANGED <<adminLogin, backend, build, cartMounted, accounts, cartDb, authSession, nextVer, notifQ, checkPc, soPending>>

onAuthStateChangeResume(c, res) ==
  /\ build = "ctx"
  /\ c \in roleCalls
  /\ roleCalls' = roleCalls \ {c}
  /\ Commit(user, session, RoleOf(res), FALSE)
  /\ UNCHANGED <<adminLogin, backend, build, cartMounted, accounts, cartDb, authSession, nextVer, notifQ, checkPc, soPending>>
  /\ toast' = "none"

\* ------------------------------------------------ part_003 ("p3")
onAuthStateChange_p3 ==
  /\ build = "p3"
  /\ notifQ # <<>>
  /\ LET s == Head(notifQ) IN
       /\ notifQ' = Tail(notifQ)
       /\ IF s # NoSession
            THEN /\ Commit(user, session, role, TRUE)
                 /\ roleCalls' = roleCalls \cup {[src |-> "notif", sess |-> s]}
            ELSE /\ Commit(NoSession, NoSession, NULL, FALSE)
                 /\ UNCHANGED roleCalls
  /\ UNCHANGED <<adminLogin, backend, build, cartMounted, accounts, cartDb, authSession, nextVer, checkPc, soPending>>
  /\ toast' = "none"
onAuthStateChangeResume_p3(c, res) ==
  /\ build = "p3"
  /\ c \in roleCalls /\ c.src = "notif"
  /\ roleCalls' = roleCalls \ {c}
  /\ Commit(c.sess, c.sess, RoleOf(res), FALSE)
  /\ UNCHANGED <<adminLogin, backend, build, cartMounted, accounts, cartDb, authSession, nextVer, notifQ, checkPc, soPending>>
  /\ toast' = "none"
checkUser ==
  /\ build = "p3"
  /\ checkPc = "getSession"
  /\ IF authSession # NoSession
       THEN /\ checkPc' = "role"
            /\ roleCalls' = roleCalls \cup {[src |-> "check", sess |-> authSession]}
            /\ NoRender
       ELSE /\ checkPc' = "done"
            /\ Commit(user, session, role, FALSE)
            /\ UNCHANGED roleCalls
  /\ UNCHANGED <<adminLogin, backend, build, cartMounted, accounts, cartDb, authSession, nextVer, notifQ, soPending>>
  /\ toast' = "none"
checkUserResume(c, res) ==
  /\ build = "p3"
  /\ c \in roleCalls /\ c.src = "check"
  /\ roleCalls' = roleCalls \ {c}
  /\ checkPc' = "done"
  /\ Commit(c.sess, c.sess, RoleOf(res), FALSE)
  /\ UNCHANGED <<adminLogin, backend, build, cartMounted, accounts, cartDb, authSession, nextVer, notifQ, soPending>>
  /\ toast' = "none"

\* ------------------------------------------------ part_002 ("p2")
onAuthStateChange_p2 ==
  /\ build = "p2"
  /\ notifQ # <<>>
  /\ LET s == Head(notifQ) IN
       /\ notifQ' = Tail(notifQ)
       /\ IF s # NoSession
            THEN /\ NoRender
                 /\ roleCalls' = roleCalls \cup {[src |-> "notif", sess |-> s]}
            ELSE /\ Commit(NoSession, NoSession, NULL, loading)
                 /\ UNCHANGED roleCalls
  /\ UNCHANGED <<adminLogin, backend, build, cartMounted, accounts, cartDb, authSession, nextVer, checkPc, soPending>>
  /\ toast' = "none"
onAuthStateChangeResume_p2(c, res) ==
  /\ build = "p2"
  /\ c \in roleCalls /\ c.src = "notif"
  /\ roleCalls' = roleCalls \ {c}
  /\ Commit(c.sess, c.sess, RoleOf(res), loading)
  /\ UNCHANGED <<adminLogin, backend, build, cartMounted, accounts, cartDb, authSession, nextVer, notifQ, checkPc, soPending>>
  /\ toast' = "none"
getSessionAndProfile(failed) ==
  /\ build = "p2"
  /\ checkPc = "getSession"
  /\ IF failed
       THEN /\ checkPc' = "done"
            /\ Commit(user, session, role, FALSE)
            /\ UNCHANGED roleCalls
       ELSE IF authSession # NoSession
       THEN /\ checkPc' = "role"
            /\ roleCalls' = roleCalls \cup {[src |-> "check", sess |-> authSession]}
            /\ NoRender
       ELSE /\ checkPc' = "done"
            /\ Commit(NoSession, NoSession, NULL, FALSE)
            /\ UNCHANGED roleCalls
  /\ UNCHANGED <<adminLogin, backend, build, cartMounted, accounts, cartDb, authSession, nextVer, notifQ, soPending>>
  /\ toast' = "none"
getSessionAndProfileResume(c, res) ==
  /\ build = "p2"
  /\ c \in roleCalls /\ c.src = "check"
  /\ roleCalls' = roleCalls \ {c}
  /\ checkPc' = "done"
  /\ Commit(c.sess, c.sess, RoleOf(res), FALSE)
  /\ UNCHANGED <<adminLogin, backend, build, cartMounted, accounts, cartDb, authSession, nextVer, notifQ, soPending>>
  /\ toast' = "none"

\* ------------------------------------------------ AdminLogin (part_009)
DashboardPath == "/admin/dashboard/products"

\* AdminLogin.handleLogin (lines 324-360), up to its second await: the form is
\* on screen; signInWithPassword fails, or succeeds and get_user_role is sent
AdminLogin_handleLogin(u, failed) ==
  /\ adminLogin.pc \in {"idle", "done"}
  /\ u \in accounts
  /\ ~loading /\ ~(user # NoSession /\ role = "admin")
  /\ IF failed
       THEN /\ adminLogin' = [pc |-> "done", sess |-> NoSession, role |-> "none",
                              nav |-> "none", error |-> "Invalid login credentials"]
            /\ UNCHANGED <<authSession, nextVer, notifQ>>
       ELSE /\ nextVer <= MaxVer
            /\ InFlight < MaxInFlight
            /\ authSession' = SessionObj(u, nextVer)
            /\ nextVer' = nextVer + 1
            /\ notifQ' = Append(notifQ, authSession')
            /\ adminLogin' = [pc |-> "rpc", sess |-> authSession', role |-> "none",
                              nav |-> "none", error |-> "none"]
  /\ NoRender /\ UNCHANGED <<backend, build, cartMounted, accounts, cartDb, roleCalls, checkPc, soPending>>
  /\ toast' = "none"

\* handleLogin reporting the refusal without ending the session it opened
AdminLogin_getUserRoleReturn_keepsSession(res) ==
  /\ adminLogin.pc = "rpc"
  /\ adminLogin' = [adminLogin EXCEPT
                      !.pc = "done", !.role = res,
                      !.nav = IF res = "admin" THEN DashboardPath ELSE "none",
                      !.error = IF res = "admin" THEN "none"
                                ELSE IF res = ERR
                                THEN "Could not retrieve user profile. Please contact support."
                                ELSE "Access denied. You do not have admin privileges."]
  /\ UNCHANGED <<authSession, notifQ>>
  /\ NoRender /\ UNCHANGED <<backend, build, cartMounted, accounts, cartDb, nextVer, roleCalls, checkPc, soPending>>
  /\ toast' = "none"

\* handleLogin (lines 340-354), after get_user_role returns: it navigates, or
\* calls supabase.auth.signOut() and waits for it
AdminLogin_getUserRoleReturn(res) ==
  /\ adminLogin.pc = "rpc"
  /\ IF res = "admin"
       THEN /\ adminLogin' = [adminLogin EXCEPT !.pc = "done", !.role = res,
                                                !.nav = DashboardPath]
            /\ UNCHANGED <<authSession, notifQ>>
       ELSE /\ authSession' = NoSession
            /\ notifQ' = Append(notifQ, NoSession)
            /\ adminLogin' = [adminLogin EXCEPT !.pc = "signOut", !.role = res]
  /\ NoRender /\ UNCHANGED <<backend, build, cartMounted, accounts, cartDb, nextVer, roleCalls, checkPc, soPending>>
  /\ toast' = "none"

\* handleLogin (lines 343-345, 351-358), after supabase.auth.signOut() returns
AdminLogin_signOutReturn ==
  /\ adminLogin.pc = "signOut"
  /\ adminLogin' = [adminLogin EXCEPT
                      !.pc = "done",
                      !.error = IF adminLogin.role = ERR
                                THEN "Could not retrieve user profile. Please contact support."
                                ELSE "Access denied. You do not have admin privileges."]
  /\ NoRender /\ UNCHANGED <<backend, build, cartMounted, accounts, cartDb, authEnv>>
  /\ toast' = "none"

\* ------------------------------------------------ backend: cart_items
\* .from("cart_items").select(`*, products(*)`).eq("user_id", user.id)
select(c) ==
  /\ c \in Calls /\ c.st = "sent" /\ c.op = "fetch"
  /\ cartCalls' = Done(c) (+)
        SetToBag({[c EXCEPT !.st = "ok", !.data = fetchedItems(cartDb[c.uid], 1)]})
  /\ UNCHANGED <<adminLogin, backend, build, cartMounted, accounts, authState, authEnv, items, cartLoading, cartDb>>
  /\ toast' = "none"

\* an upsert that adds the quantity it is sent to the one the row holds
upsert_adds(c) ==
  /\ c \in Calls /\ c.st = "sent" /\ c.op \in {"merge", "add"}
  /\ cartDb' = [cartDb EXCEPT ![c.uid] = upsertRows_sums(@, c.rows)]
  /\ cartCalls' = Done(c) (+) SetToBag({[c EXCEPT !.st = "ok"]})
  /\ UNCHANGED <<adminLogin, backend, build, cartMounted, accounts, authState, authEnv, items, cartLoading>>
  /\ toast' = "none"

\* .from('cart_items').upsert(rows, { onConflict: 'user_id, product_id' })
upsert(c) ==
  /\ c \in Calls /\ c.st = "sent" /\ c.op \in {"merge", "add"}
  /\ cartDb' = [cartDb EXCEPT ![c.uid] = upsertRows(@, c.rows)]
  /\ cartCalls' = Done(c) (+) SetToBag({[c EXCEPT !.st = "ok"]})
  /\ UNCHANGED <<adminLogin, backend, build, cartMounted, accounts, authState, authEnv, items, cartLoading>>
  /\ toast' = "none"

\* --------------------------------------------- CartProvider of part_003
\* fetchCart (lines 120-145), after its await
fetchCartResume(c, failed) ==
  /\ build = "p3"
  /\ c \in Calls /\ c.op = "fetch" /\ c.st = (IF failed THEN "sent" ELSE "ok")
  /\ cartCalls' = Done(c)
  /\ IF failed
       THEN toast' = "Could not fetch your cart." /\ UNCHANGED items
       ELSE items' = c.data /\ toast' = "none"
  /\ cartLoading' = FALSE
  /\ UNCHANGED <<adminLogin, backend, build, cartMounted, accounts, authState, authEnv, cartDb>>

\* mergeAndClearLocalCart without its setItems([])
mergeAndClearLocalCartResume_keepsItems(c, failed) ==
  /\ build = "p3"
  /\ c \in Calls /\ c.op = "merge" /\ c.st = (IF failed THEN "sent" ELSE "ok")
  /\ IF failed
       THEN /\ toast' = "Could not merge your cart items."
            /\ cartCalls' = Done(c)
            /\ UNCHANGED <<items, cartLoading>>
       ELSE /\ cartLoading' = TRUE
            /\ cartCalls' = Done(c) (+) SetToBag({Call("fetch", c.uid, <<>>, <<>>)})
            /\ toast' = "none"
            /\ UNCHANGED items
  /\ UNCHANGED <<adminLogin, backend, build, cartMounted, accounts, authState, authEnv, cartDb>>

\* mergeAndClearLocalCart reporting the error and going on to clear and re-fetch
mergeAndClearLocalCartResume_goesOn(c, failed) ==
  /\ build = "p3"
  /\ c \in Calls /\ c.op = "merge" /\ c.st = (IF failed THEN "sent" ELSE "ok")
  /\ toast' = IF failed THEN "Could not merge your cart items." ELSE "none"
  /\ items' = <<>>
  /\ cartLoading' = TRUE
  /\ cartCalls' = Done(c) (+) SetToBag({Call("fetch", c.uid, <<>>, <<>>)})
  /\ UNCHANGED <<adminLogin, backend, build, cartMounted, accounts, authState, authEnv, cartDb>>

\* mergeAndClearLocalCart (lines 148-166), after its await
mergeAndClearLocalCartResume(c, failed) ==
  /\ build = "p3"
  /\ c \in Calls /\ c.op = "merge" /\ c.st = (IF failed THEN "sent" ELSE "ok")
  /\ IF failed
       THEN /\ toast' = "Could not merge your cart items."
            /\ cartCalls' = Done(c)
            /\ UNCHANGED <<items, cartLoading>>
       ELSE /\ items' = <<>>
            /\ cartLoading' = TRUE
            /\ cartCalls' = Done(c) (+) SetToBag({Call("fetch", c.uid, <<>>, <<>>)})
            /\ toast' = "none"
  /\ UNCHANGED <<adminLogin, backend, build, cartMounted, accounts, authState, authEnv, cartDb>>

\* an updater that appends a line whether or not the product has one
addLocal_appends(prev, id) == Append(prev, [id |-> id, quantity |-> 1])

\* the updater of lines 197-205
addLocal(prev, id) ==
  IF HasLine(prev, id)
  THEN [i \in 1..Len(prev) |->
          IF prev[i].id = id THEN [prev[i] EXCEPT !.quantity = @ + 1] ELSE prev[i]]
  ELSE Append(prev, [id |-> id, quantity |-> 1])

\* addItem (lines 184-207), up to its await
addItem_p3(id) ==
  /\ build = "p3"
  /\ QuantityOf(items, id) < MaxQty
  /\ IF user # NoSession
       THEN /\ InFlight < MaxInFlight
            /\ cartCalls' = Sent(Call("add", user.uid,
                       <<[id |-> id, quantity |-> QuantityOf(items, id) + 1]>>, <<>>))
            /\ toast' = "none"
            /\ UNCHANGED <<items, cartLoading>>
       ELSE /\ items' = addLocal(items, id)
            /\ toast' = IF HasLine(items, id) THEN "Updated cart quantity"
                                              ELSE "Added to cart"
            /\ UNCHANGED <<cartLoading, cartCalls>>
  /\ UNCHANGED <<adminLogin, backend, build, cartMounted, accounts, authState, authEnv, cartDb>>

\* addItem (lines 184-207), after its await
addItemResume_p3(c, failed) ==
  /\ build = "p3"
  /\ c \in Calls /\ c.op = "add" /\ c.st = (IF failed THEN "sent" ELSE "ok")
  /\ IF failed
       THEN /\ toast' = "Failed to add item to cart."
            /\ cartCalls' = Done(c)
            /\ UNCHANGED <<items, cartLoading>>
       ELSE /\ toast' = "Added to cart"
            /\ cartLoading' = TRUE
            /\ cartCalls' = Done(c) (+) SetToBag({Call("fetch", c.uid, <<>>, <<>>)})
            /\ UNCHANGED items
  /\ UNCHANGED <<adminLogin, backend, build, cartMounted, accounts, authState, authEnv, cartDb>>

\* ------------------------------------------- CartProvider of CartContext.tsx
\* fetchUserCart (lines 48-70), after its await
fetchUserCartResume(c, failed) ==
  /\ build # "p3"
  /\ c \in Calls /\ c.op = "fetch" /\ c.st = (IF failed THEN "sent" ELSE "ok")
  /\ cartCalls' = Done(c)
  /\ IF failed
       THEN toast' = "Could not fetch your cart from the database." /\ items' = <<>>
       ELSE items' = c.data /\ toast' = "none"
  /\ cartLoading' = FALSE
  /\ UNCHANGED <<adminLogin, backend, build, cartMounted, accounts, authState, authEnv, cartDb>>

\* updatedItems of lines 99-101
updatedItems(its, id) ==
  IF HasLine(its, id)
  THEN [i \in 1..Len(its) |->
          IF its[i].id = id THEN [its[i] EXCEPT !.quantity = QuantityOf(its, id) + 1]
                            ELSE its[i]]
  ELSE Append(its, [id |-> id, quantity |-> 1])

\* addItem (lines 80-104), up to its await
addItem(id) ==
  /\ build # "p3"
  /\ IF user = NoSession
       THEN /\ toast' = "Please log in to add items to your cart."
            /\ UNCHANGED <<items, cartLoading, cartCalls>>
       ELSE /\ QuantityOf(items, id) < MaxQty
            /\ InFlight < MaxInFlight
            /\ cartCalls' = Sent(Call("add", user.uid,
                       <<[id |-> id, quantity |-> QuantityOf(items, id) + 1]>>,
                       updatedItems(items, id)))
            /\ toast' = "none"
            /\ UNCHANGED <<items, cartLoading>>
  /\ UNCHANGED <<adminLogin, backend, build, cartMounted, accounts, authState, authEnv, cartDb>>

\* addItem (lines 80-104), after its await
addItemResume(c, failed) ==
  /\ build # "p3"
  /\ c \in Calls /\ c.op = "add" /\ c.st = (IF failed THEN "sent" ELSE "ok")
  /\ cartCalls' = Done(c)
  /\ IF failed
       THEN toast' = "Failed to add item to cart." /\ UNCHANGED items
       ELSE toast' = "Added to cart" /\ items' = c.upd
  /\ UNCHANGED <<adminLogin, backend, build, cartMounted, accounts, authState, authEnv, cartLoading, cartDb>>

\* ------------------------------------------------ cart_items writes
\* from('cart_items').delete().match({user_id, product_id}) / .eq('user_id', ...)
delete(c) ==
  /\ c \in Calls /\ c.op \in {"remove", "clear"} /\ c.st = "sent"
  /\ cartDb' = [cartDb EXCEPT ![c.uid] =
                  [p \in Products |->
                     IF c.op = "clear" \/ HasLine(c.rows, p) THEN 0 ELSE cartDb[c.uid][p]]]
  /\ cartCalls' = Done(c) (+) SetToBag({[c EXCEPT !.st = "ok"]})
  /\ toast' = "none"
  /\ UNCHANGED <<adminLogin, backend, build, cartMounted, accounts, authState, authEnv, items, cartLoading>>

\* from('cart_items').update({ quantity }).match({user_id, product_id})
update(c) ==
  /\ c \in Calls /\ c.op = "update" /\ c.st = "sent"
  /\ cartDb' = [cartDb EXCEPT ![c.uid] =
                  [p \in Products |->
                     IF HasLine(c.rows, p) /\ cartDb[c.uid][p] > 0
                     THEN QuantityOf(c.rows, p) ELSE cartDb[c.uid][p]]]
  /\ cartCalls' = Done(c) (+) SetToBag({[c EXCEPT !.st = "ok"]})
  /\ toast' = "none"
  /\ UNCHANGED <<adminLogin, backend, build, cartMounted, accounts, authState, authEnv, items, cartLoading>>

\* prev.filter(i => i.id !== id)
filterOut(prev, id) == SelectSeq(prev, LAMBDA i : i.id # id)

\* prev.map(i => i.id === id ? { ...i, quantity } : i)
setQuantity(prev, id, q) ==
  [i \in 1..Len(prev) |-> IF prev[i].id = id THEN [prev[i] EXCEPT !.quantity = q] ELSE prev[i]]

\* ------------------------- part_003: removeItem, updateQuantity, clearCart
\* removeItem (lines 209-221), up to its await
removeItem_p3(id) ==
  /\ build = "p3"
  /\ IF user # NoSession
       THEN /\ InFlight < MaxInFlight
            /\ cartCalls' = Sent(Call("remove", user.uid, <<[id |-> id, quantity |-> 0]>>, <<>>))
            /\ toast' = "none"
            /\ UNCHANGED <<items, cartLoading>>
       ELSE /\ items' = filterOut(items, id)
            /\ toast' = "Removed from cart"
            /\ UNCHANGED <<cartLoading, cartCalls>>
  /\ UNCHANGED <<adminLogin, backend, build, cartMounted, accounts, authState, authEnv, cartDb>>

\* removeItem (lines 209-221), after its await
removeItemResume_p3(c, failed) ==
  /\ build = "p3"
  /\ c \in Calls /\ c.op = "remove" /\ c.st = (IF failed THEN "sent" ELSE "ok")
  /\ IF failed
       THEN /\ toast' = "Failed to remove item."
            /\ cartCalls' = Done(c)
            /\ UNCHANGED <<items, cartLoading>>
       ELSE /\ toast' = "Removed from cart"
            /\ cartLoading' = TRUE
            /\ cartCalls' = Done(c) (+) SetToBag({Call("fetch", c.uid, <<>>, <<>>)})
            /\ UNCHANGED items
  /\ UNCHANGED <<adminLogin, backend, build, cartMounted, accounts, authState, authEnv, cartDb>>

\* updateQuantity that writes the quantity it is given, whatever its sign
updateQuantity_p3_noDelegation(id, q) ==
  /\ build = "p3"
  /\ IF user # NoSession
       THEN /\ InFlight < MaxInFlight
            /\ cartCalls' = Sent(Call("update", user.uid, <<[id |-> id, quantity |-> q]>>, <<>>))
            /\ UNCHANGED <<items, cartLoading>>
       ELSE /\ items' = setQuantity(items, id, q)
            /\ UNCHANGED <<cartLoading, cartCalls>>
  /\ toast' = "none"
  /\ UNCHANGED <<adminLogin, backend, build, cartMounted, accounts, authState, authEnv, cartDb>>

\* updateQuantity (lines 223-235), up to its await
updateQuantity_p3(id, q) ==
  IF q <= 0 THEN removeItem_p3(id)
  ELSE
  /\ build = "p3"
  /\ IF user # NoSession
       THEN /\ InFlight < MaxInFlight
            /\ cartCalls' = Sent(Call("update", user.uid, <<[id |-> id, quantity |-> q]>>, <<>>))
            /\ UNCHANGED <<items, cartLoading>>
       ELSE /\ items' = setQuantity(items, id, q)
            /\ UNCHANGED <<cartLoading, cartCalls>>
  /\ toast' = "none"
  /\ UNCHANGED <<adminLogin, backend, build, cartMounted, accounts, authState, authEnv, cartDb>>

\* updateQuantity (lines 223-235), after its await
updateQuantityResume_p3(c, failed) ==
  /\ build = "p3"
  /\ c \in Calls /\ c.op = "update" /\ c.st = (IF failed THEN "sent" ELSE "ok")
  /\ IF failed
       THEN /\ toast' = "Failed to update quantity."
            /\ cartCalls' = Done(c)
            /\ UNCHANGED <<items, cartLoading>>
       ELSE /\ toast' = "none"
            /\ cartLoading' = TRUE
            /\ cartCalls' = Done(c) (+) SetToBag({Call("fetch", c.uid, <<>>, <<>>)})
            /\ UNCHANGED items
  /\ UNCHANGED <<adminLogin, backend, build, cartMounted, accounts, authState, authEnv, cartDb>>

\* clearCart that sends its delete whether or not there is a user
clearCartCall_p3_alwaysRemote ==
  /\ cartCalls' = Sent(Call("clear", user.uid, <<>>, <<>>))
  /\ UNCHANGED <<items, cartLoading>>

\* clearCart (lines 237-247), up to its await: what it does to the Cart Store
clearCartCall_p3 ==
  IF user # NoSession
  THEN /\ cartCalls' = Sent(Call("clear", user.uid, <<>>, <<>>))
       /\ UNCHANGED <<items, cartLoading>>
  ELSE /\ items' = <<>>
       /\ UNCHANGED <<cartLoading, cartCalls>>

clearCart_p3 ==
  /\ build = "p3"
  /\ user # NoSession => InFlight < MaxInFlight
  /\ clearCartCall_p3
  /\ toast' = "none"
  /\ UNCHANGED <<adminLogin, backend, build, cartMounted, accounts, authState, authEnv, cartDb>>

\* clearCart (lines 237-247), after its await
clearCartResume_p3(c, failed) ==
  /\ build = "p3"
  /\ c \in Calls /\ c.op = "clear" /\ c.st = (IF failed THEN "sent" ELSE "ok")
  /\ cartCalls' = Done(c)
  /\ IF failed
       THEN toast' = "Failed to clear cart." /\ UNCHANGED items
       ELSE toast' = "none" /\ items' = <<>>
  /\ UNCHANGED <<adminLogin, backend, build, cartMounted, accounts, authState, authEnv, cartLoading, cartDb>>

\* -------------------- CartContext.tsx: removeItem, updateQuantity, clearCart
\* removeItem that drops the line before the delete is confirmed
removeItem_optimistic(id) ==
  /\ build # "p3"
  /\ IF user = NoSession
       THEN UNCHANGED <<items, cartLoading, cartCalls>>
       ELSE /\ InFlight < MaxInFlight
            /\ cartCalls' = Sent(Call("remove", user.uid, <<[id |-> id, quantity |-> 0]>>, <<>>))
            /\ items' = filterOut(items, id)
            /\ UNCHANGED cartLoading
  /\ toast' = "none"
  /\ UNCHANGED <<adminLogin, backend, build, cartMounted, accounts, authState, authEnv, cartDb>>

\* removeItem (lines 106-116), up to its await
removeItem(id) ==
  /\ build # "p3"
  /\ IF user = NoSession
       THEN UNCHANGED <<items, cartLoading, cartCalls>>
       ELSE /\ InFlight < MaxInFlight
            /\ cartCalls' = Sent(Call("remove", user.uid, <<[id |-> id, quantity |-> 0]>>, <<>>))
            /\ UNCHANGED <<items, cartLoading>>
  /\ toast' = "none"
  /\ UNCHANGED <<adminLogin, backend, build, cartMounted, accounts, authState, authEnv, cartDb>>

\* removeItem (lines 106-116), after its await
removeItemResume(c, failed) ==
  /\ build # "p3"
  /\ c \in Calls /\ c.op = "remove" /\ c.st = (IF failed THEN "sent" ELSE "ok")
  /\ cartCalls' = Done(c)
  /\ IF failed
       THEN toast' = "Failed to remove item." /\ UNCHANGED items
       ELSE toast' = "Removed from cart" /\ items' = filterOut(items, c.rows[1].id)
  /\ UNCHANGED <<adminLogin, backend, build, cartMounted, accounts, authState, authEnv, cartLoading, cartDb>>

\* updateQuantity (lines 118-131), up to its await
updateQuantity(id, q) ==
  IF q <= 0 THEN removeItem(id)
  ELSE
  /\ build # "p3"
  /\ IF user = NoSession
       THEN UNCHANGED <<items, cartLoading, cartCalls>>
       ELSE /\ InFlight < MaxInFlight
            /\ cartCalls' = Sent(Call("update", user.uid, <<[id |-> id, quantity |-> q]>>, <<>>))
            /\ UNCHANGED <<items, cartLoading>>
  /\ toast' = "none"
  /\ UNCHANGED <<adminLogin, backend, build, cartMounted, accounts, authState, authEnv, cartDb>>

\* updateQuantity (lines 118-131), after its await
updateQuantityResume(c, failed) ==
  /\ build # "p3"
  /\ c \in Calls /\ c.op = "update" /\ c.st = (IF failed THEN "sent" ELSE "ok")
  /\ cartCalls' = Done(c)
  /\ IF failed
       THEN toast' = "Failed to update quantity." /\ UNCHANGED items
       ELSE toast' = "none" /\ items' = setQuantity(items, c.rows[1].id, c.rows[1].quantity)
  /\ UNCHANGED <<adminLogin, backend, build, cartMounted, accounts, authState, authEnv, cartLoading, cartDb>>

\* clearCart (lines 133-142), up to its await: what it does to the Cart Store
clearCartCall ==
  IF user = NoSession
  THEN UNCHANGED <<items, cartLoading, cartCalls>>
  ELSE /\ cartCalls' = Sent(Call("clear", user.uid, <<>>, <<>>))
       /\ UNCHANGED <<items, cartLoading>>

clearCart ==
  /\ build # "p3"
  /\ user # NoSession => InFlight < MaxInFlight
  /\ clearCartCall
  /\ toast' = "none"
  /\ UNCHANGED <<adminLogin, backend, build, cartMounted, accounts, authState, authEnv, cartDb>>

\* clearCart (lines 133-142), after its await
clearCartResume(c, failed) ==
  /\ build # "p3"
  /\ c \in Calls /\ c.op = "clear" /\ c.st = (IF failed THEN "sent" ELSE "ok")
  /\ cartCalls' = Done(c)
  /\ IF failed
       THEN toast' = "Failed to clear cart." /\ UNCHANGED items
       ELSE toast' = "none" /\ items' = <<>>
  /\ UNCHANGED <<adminLogin, backend, build, cartMounted, accounts, authState, authEnv, cartLoading, cartDb>>

\* ---------------------------------------------------------------- total
\* a sum that counts each line once, whatever its quantity
RECURSIVE total_perLine(_)
total_perLine(its) ==
  IF its = <<>> THEN 0
  ELSE total_perLine(SubSeq(its, 1, Len(its) - 1)) + Price(its[Len(its)].id)

\* items.reduce((sum, item) => sum + item.price * item.quantity, 0)
RECURSIVE total(_)
total(its) ==
  IF its = <<>> THEN 0
  ELSE total(SubSeq(its, 1, Len(its) - 1)) + Price(its[Len(its)].id) * its[Len(its)].quantity

\* ------------------------------------------------------------- Checkout
\* Checkout.onSubmit (lines 83-148); `outcome` names the request that fails, or "ok".
\* The upload and the two inserts touch no state of the two stores; clearCart is the
\* function of the render in which the form was submitted.
CheckoutOutcomes == {"upload", "order", "items", "ok"}

\* onSubmit without its clearCart() call
onSubmit_keepsCart(outcome) ==
  /\ items # <<>>
  /\ Len(orders) < MaxOrders
  /\ user # NoSession => InFlight < MaxInFlight
  /\ orders' = CASE outcome = "ok"    -> Append(orders, [uid |-> user.uid, lines |-> items])
                 [] outcome = "items" -> Append(orders, [uid |-> user.uid, lines |-> <<>>])
                 [] OTHER             -> orders
  /\ toast' = CASE outcome = "ok"     -> "Order submitted successfully!"
                [] outcome = "upload" -> "Screenshot upload failed"
                [] outcome = "order"  -> "Failed to save order"
                [] OTHER              -> "Failed to save order items"
  /\ UNCHANGED clientCart
  /\ UNCHANGED <<profiles, products, categories, images, reply>>
  /\ UNCHANGED <<adminLogin, build, cartMounted, accounts, authState, authEnv, cartDb>>

onSubmit(outcome) ==
  /\ items # <<>>
  /\ Len(orders) < MaxOrders
  /\ user # NoSession => InFlight < MaxInFlight
  /\ orders' = CASE outcome = "ok"    -> Append(orders, [uid |-> user.uid, lines |-> items])
                 [] outcome = "items" -> Append(orders, [uid |-> user.uid, lines |-> <<>>])
                 [] OTHER             -> orders
  /\ toast' = CASE outcome = "ok"     -> "Order submitted successfully!"
                [] outcome = "upload" -> "Screenshot upload failed"
                [] outcome = "order"  -> "Failed to save order"
                [] OTHER              -> "Failed to save order items"
  /\ IF outcome = "ok"
       THEN IF build = "p3" THEN clearCartCall_p3 ELSE clearCartCall
       ELSE UNCHANGED clientCart
  /\ UNCHANGED <<profiles, products, categories, images, reply>>
  /\ UNCHANGED <<adminLogin, build, cartMounted, accounts, authState, authEnv, cartDb>>

\* Checkout.tsx lines 52-57: the effect of a render of the page; no submission
\* is running between two steps (onSubmit is one step), so isSubmitting is false
CheckoutRedirect ==
  IF total(items) = 0 /\ Len(items) = 0 THEN "/products" ELSE "none"

\* ------------------------------------------------- row-level policies
\* who sends a request: a registered account (role `authenticated`, auth.uid()
\* its id) or nobody signed in (role `anon`, auth.uid() null)
Callers == Users \cup {"anon"}
Authenticated(caller) == caller \in accounts

\* (SELECT role FROM public.profiles WHERE id = auth.uid())
CallerRole(caller) == IF Authenticated(caller) THEN profiles[caller] ELSE NULL

\* a write policy that asks only for the role `authenticated`
AdminsCanWrite_anyAuthenticated(caller) == Authenticated(caller)

\* "Admins can create / update / delete products | categories": TO authenticated,
\* USING / WITH CHECK ((SELECT role FROM profiles WHERE id = auth.uid()) = 'admin')
AdminsCanWrite(caller) == Authenticated(caller) /\ CallerRole(caller) = "admin"

\* "Admins can upload / update / delete product images": TO authenticated,
\* USING / WITH CHECK (bucket_id = 'product-images')
AdminsCanWriteImages(caller) == Authenticated(caller)

\* "Users can update own profile.": FOR UPDATE USING (auth.uid() = id)
UsersCanUpdateOwnProfile(caller, id) == Authenticated(caller) /\ caller = id

\* the new content of a table after one write on one of its rows: an insert
\* the policy refuses is an error, an update or delete sees only the rows the
\* policy lets through
Written(table, key, op, val, allowed) ==
  IF op = "insert"
  THEN IF allowed /\ table[key] = 0 THEN [table EXCEPT ![key] = val] ELSE table
  ELSE IF allowed /\ table[key] # 0
  THEN [table EXCEPT ![key] = IF op = "delete" THEN 0 ELSE val]
  ELSE table
Status(table, key, op, allowed) ==
  IF op = "insert"
  THEN IF allowed /\ table[key] = 0 THEN "ok" ELSE "error"
  ELSE IF allowed /\ table[key] # 0 THEN "ok" ELSE "0 rows"

WriteOps == {"insert", "update", "delete"}
PriceValues == {Price(p) : p \in Products}
Revisions == 1..MaxRev
Roles == {"user", "admin"}

\* from("products").insert / update / delete, sent by `caller`
writeProducts(caller, p, op, val) ==
  /\ products' = Written(products, p, op, val, AdminsCanWrite(caller))
  /\ reply' = [caller |-> caller, on |-> "products", op |-> op,
               status |-> Status(products, p, op, AdminsCanWrite(caller))]
  /\ UNCHANGED <<orders, profiles, categories, images>>
  /\ UNCHANGED <<adminLogin, build, cartMounted, accounts, authState, authEnv, clientCart, toast, cartDb>>

\* from("categories").insert / update / delete, sent by `caller`
writeCategories(caller, c, op, val) ==
  /\ categories' = Written(categories, c, op, val, AdminsCanWrite(caller))
  /\ reply' = [caller |-> caller, on |-> "categories", op |-> op,
               status |-> Status(categories, c, op, AdminsCanWrite(caller))]
  /\ UNCHANGED <<orders, profiles, products, images>>
  /\ UNCHANGED <<adminLogin, build, cartMounted, accounts, authState, authEnv, clientCart, toast, cartDb>>

\* storage.from('product-images').upload / update / remove, sent by `caller`
writeImages(caller, f, op, val) ==
  /\ images' = Written(images, f, op, val, AdminsCanWriteImages(caller))
  /\ reply' = [caller |-> caller, on |-> "product-images", op |-> op,
               status |-> Status(images, f, op, AdminsCanWriteImages(caller))]
  /\ UNCHANGED <<orders, profiles, products, categories>>
  /\ UNCHANGED <<adminLogin, build, cartMounted, accounts, authState, authEnv, clientCart, toast, cartDb>>

\* from("profiles").update({ role }).eq("id", id), sent by `caller`
updateProfile(caller, id, newRole) ==
  /\ profiles' = IF UsersCanUpdateOwnProfile(caller, id) /\ profiles[id] # "none"
                 THEN [profiles EXCEPT ![id] = newRole] ELSE profiles
  /\ reply' = [caller |-> caller, on |-> "profiles", op |-> "update",
               status |-> IF UsersCanUpdateOwnProfile(caller, id) /\ profiles[id] # "none"
                          THEN "ok" ELSE "0 rows"]
  /\ UNCHANGED <<orders, products, categories, images>>
  /\ UNCHANGED <<adminLogin, build, cartMounted, accounts, authState, authEnv, clientCart, toast, cartDb>>

\* account registration: the trigger on auth.users inserts the profile
handle_new_user(u) ==
  /\ u \notin accounts
  /\ accounts' = accounts \cup {u}
  /\ profiles' = [profiles EXCEPT ![u] = "user"]
  /\ reply' = NoReply
  /\ UNCHANGED <<orders, products, categories, images>>
  /\ UNCHANGED <<adminLogin, build, cartMounted, authState, authEnv, clientCart, toast, cartDb>>

\* ------------------------------------------------------------ AdminRoute
\* AdminRoute with the role test dropped from its first branch
AdminRoute_ignoresRole ==
  IF loading THEN "Loading..."
  ELSE IF user # NoSession THEN "Outlet"
  ELSE "/admin"

\* what AdminRoute renders: the loading text, the admin outlet, or a redirect
AdminRoute ==
  IF loading THEN "Loading..."
  ELSE IF user # NoSession /\ role = "admin" THEN "Outlet"
  ELSE IF user # NoSession THEN "/"
  ELSE "/admin"

\* -------------------------------------------------------- ProtectedRoute
\* ProtectedRoute without its loading branch
ProtectedRoute_ignoresLoading ==
  IF user # NoSession THEN "Outlet" ELSE "/login"

\* what ProtectedRoute renders: the loading text, the protected page, or a redirect
ProtectedRoute ==
  IF loading THEN "Loading..."
  ELSE IF user # NoSession THEN "Outlet"
  ELSE "/login"

\* ---------------------------------------------------------------- specs
\* the auth client, and the AuthProvider of AuthContext.tsx and part_003
NextSession ==
  \/ \E u \in Users : handleLogin(u)
  \/ TokenRefreshed
  \/ signOut
  \/ signOutReturn
  \/ onAuthStateChange
  \/ \E c \in roleCalls : \E res \in RoleResults(c.sess.uid) : onAuthStateChangeResume(c, res)
  \/ onAuthStateChange_p3
  \/ \E c \in roleCalls : \E res \in RoleResults(c.sess.uid) : onAuthStateChangeResume_p3(c, res)
  \/ checkUser
  \/ \E c \in roleCalls : \E res \in RoleResults(c.sess.uid) : checkUserResume(c, res)

\* the AuthProvider of part_002
NextSession_p2 ==
  \/ signOutReturn_p2
  \/ onAuthStateChange_p2
  \/ \E c \in roleCalls : \E res \in RoleResults(c.sess.uid) : onAuthStateChangeResume_p2(c, res)
  \/ \E failed \in BOOLEAN : getSessionAndProfile(failed)
  \/ \E c \in roleCalls : \E res \in RoleResults(c.sess.uid) : getSessionAndProfileResume(c, res)

NextCart ==
  \/ \E c \in Calls : select(c)
  \/ \E c \in Calls : upsert(c)
  \/ \E c \in Calls : \E failed \in BOOLEAN : fetchCartResume(c, failed)
  \/ \E c \in Calls : \E failed \in BOOLEAN : mergeAndClearLocalCartResume(c, failed)
  \/ \E id \in Products : addItem_p3(id)
  \/ \E c \in Calls : \E failed \in BOOLEAN : addItemResume_p3(c, failed)
  \/ \E c \in Calls : \E failed \in BOOLEAN : fetchUserCartResume(c, failed)
  \/ \E id \in Products : addItem(id)
  \/ \E c \in Calls : \E failed \in BOOLEAN : addItemResume(c, failed)

\* the application: AuthProvider with CartProvider under it
Next == NextSession \/ NextCart
Spec == Init /\ [][Next]_vars

\* what the user and the auth client start: sign-in, token refresh, sign-out,
\* the four cart mutations of both CartProviders, and the checkout submission
UserEvents ==
  \/ \E u \in Users : handleLogin(u)
  \/ TokenRefreshed
  \/ signOut
  \/ \E id \in Products : addItem_p3(id)
  \/ \E id \in Products : addItem(id)
  \/ \E id \in Products : removeItem_p3(id)
  \/ \E id \in Products : \E q \in Quantities : updateQuantity_p3(id, q)
  \/ clearCart_p3
  \/ \E id \in Products : removeItem(id)
  \/ \E id \in Products : \E q \in Quantities : updateQuantity(id, q)
  \/ clearCart
  \/ \E outcome \in CheckoutOutcomes : onSubmit(outcome)

\* what then runs by itself: the backend executing requests, callbacks resuming
Completions ==
  \/ signOutReturn
  \/ onAuthStateChange
  \/ \E c \in roleCalls : \E res \in RoleResults(c.sess.uid) : onAuthStateChangeResume(c, res)
  \/ onAuthStateChange_p3
  \/ \E c \in roleCalls : \E res \in RoleResults(c.sess.uid) : onAuthStateChangeResume_p3(c, res)
  \/ checkUser
  \/ \E c \in roleCalls : \E res \in RoleResults(c.sess.uid) : checkUserResume(c, res)
  \/ \E c \in Calls : select(c)
  \/ \E c \in Calls : upsert(c)
  \/ \E c \in Calls : delete(c)
  \/ \E c \in Calls : update(c)
  \/ \E c \in Calls : \E failed \in BOOLEAN : fetchCartResume(c, failed)
  \/ \E c \in Calls : \E failed \in BOOLEAN : mergeAndClearLocalCartResume(c, failed)
  \/ \E c \in Calls : \E failed \in BOOLEAN : addItemResume_p3(c, failed)
  \/ \E c \in Calls : \E failed \in BOOLEAN : removeItemResume_p3(c, failed)
  \/ \E c \in Calls : \E failed \in BOOLEAN : updateQuantityResume_p3(c, failed)
  \/ \E c \in Calls : \E failed \in BOOLEAN : clearCartResume_p3(c, failed)
  \/ \E c \in Calls : \E failed \in BOOLEAN : fetchUserCartResume(c, failed)
  \/ \E c \in Calls : \E failed \in BOOLEAN : addItemResume(c, failed)
  \/ \E c \in Calls : \E failed \in BOOLEAN : removeItemResume(c, failed)
  \/ \E c \in Calls : \E failed \in BOOLEAN : updateQuantityResume(c, failed)
  \/ \E c \in Calls : \E failed \in BOOLEAN : clearCartResume(c, failed)

\* the application with all its cart operations; the user and the auth client
\* start something new while fewer than MaxOpsInFlight things are under way
NextOps == (InFlight < MaxOpsInFlight /\ UserEvents) \/ Completions
SpecOps == Init /\ [][NextOps]_vars

\* CartContext.tsx under AuthContext.tsx with a backend that answers every
\* request without error: sign-in, sign-out, the four mutations, their writes
InitCtx == Init /\ build = "ctx"
NextCtx ==
  \/ \E u \in Users : handleLogin(u)
  \/ TokenRefreshed
  \/ signOut
  \/ signOutReturn
  \/ onAuthStateChange
  \/ \E c \in roleCalls : onAuthStateChangeResume(c, ProfileRole(c.sess.uid))
  \/ \E id \in Products : addItem(id)
  \/ \E id \in Products : removeItem(id)
  \/ \E id \in Products : \E q \in Quantities : updateQuantity(id, q)
  \/ clearCart
  \/ \E c \in Calls : select(c)
  \/ \E c \in Calls : upsert(c)
  \/ \E c \in Calls : delete(c)
  \/ \E c \in Calls : update(c)
  \/ \E c \in Calls : fetchUserCartResume(c, FALSE)
  \/ \E c \in Calls : addItemResume(c, FALSE)
  \/ \E c \in Calls : removeItemResume(c, FALSE)
  \/ \E c \in Calls : updateQuantityResume(c, FALSE)
  \/ \E c \in Calls : clearCartResume(c, FALSE)
SpecCtx == InitCtx /\ [][NextCtx]_vars

\* the AdminLogin page over the AuthProvider of AuthContext.tsx
InitAdminLogin == InitAuth /\ build = "ctx"
NextAdminLogin ==
  \/ \E u \in Users : \E failed \in BOOLEAN : AdminLogin_handleLogin(u, failed)
  \/ \E res \in RoleResults(adminLogin.sess.uid) : AdminLogin_getUserRoleReturn(res)
  \/ AdminLogin_signOutReturn
  \/ \E u \in Users : handleLogin(u)
  \/ TokenRefreshed
  \/ signOut
  \/ signOutReturn
  \/ onAuthStateChange
  \/ \E c \in roleCalls : \E res \in RoleResults(c.sess.uid) : onAuthStateChangeResume(c, res)
SpecAdminLogin == InitAdminLogin /\ [][NextAdminLogin]_vars

\* the backend alone: requests sent straight to the tables and the bucket
InitRls ==
  /\ build = "ctx"
  /\ cartMounted = FALSE
  /\ accounts = {"u1"}
  /\ user = NoSession /\ session = NoSession /\ role = NULL /\ loading = TRUE
  /\ authSession = NoSession /\ nextVer = 1 /\ notifQ = <<authSession>>
  /\ roleCalls = {} /\ checkPc = "none" /\ soPending = 0
  /\ items = <<>> /\ cartLoading = TRUE /\ cartCalls = EmptyBag /\ toast = "none"
  /\ cartDb = [u \in Users |-> EmptyCart]
  /\ SeededBackend
  /\ adminLogin = NoAdminLogin
NextRls ==
  \/ \E u \in Users : handle_new_user(u)
  \/ \E caller \in Callers : \E id \in Users : \E r \in Roles : updateProfile(caller, id, r)
  \/ \E caller \in Callers : \E p \in Products : \E op \in WriteOps : \E v \in PriceValues :
       writeProducts(caller, p, op, v)
  \/ \E caller \in Callers : \E c \in Categories : \E op \in WriteOps : \E v \in Revisions :
       writeCategories(caller, c, op, v)
  \/ \E caller \in Callers : \E f \in Paths : \E op \in WriteOps : \E v \in Revisions :
       writeImages(caller, f, op, v)
SpecRls == InitRls /\ [][NextRls]_vars

\* the Session Store alone, in each of its versions
NextAuth == NextSession \/ NextSession_p2
SpecAuth == InitAuth /\ [][NextAuth]_vars

\* the notifications are delivered and the lookups return: every callback that
\* is waiting for the auth client or the backend is eventually resumed
Deliver == onAuthStateChange \/ onAuthStateChange_p3 \/ onAuthStateChange_p2
InitialCheck == checkUser \/ (\E failed \in BOOLEAN : getSessionAndProfile(failed))
LookupReturns ==
  \E c \in roleCalls : \E res \in RoleResults(c.sess.uid) :
    \/ onAuthStateChangeResume(c, res)
    \/ onAuthStateChangeResume_p3(c, res)
    \/ checkUserResume(c, res)
    \/ onAuthStateChangeResume_p2(c, res)
    \/ getSessionAndProfileResume(c, res)
SpecAuthFair ==
  SpecAuth /\ WF_vars(Deliver) /\ WF_vars(InitialCheck) /\ WF_vars(LookupReturns)

\* ================================================================ claims

\* C1: in the Session Store, once loading is false it never becomes true
\* again, whatever notifications arrive and lookups complete.
C1_LoadingNeverReverts == [][~loading => ~loading']_vars

\* C2: with notifications delivered and lookups returning, loading reaches
\* false; and the step in which a role lookup of AuthContext.tsx returns an
\* error leaves loading false.
LookupFails == \E c \in roleCalls : onAuthStateChangeResume(c, ERR)
C2_LoadingResolves == <>(~loading) /\ [][LookupFails => ~loading']_vars

\* C2 witness: a signed-in identity whose lookup failed (its role is null with
\* nothing left in flight), and loading is false.
C2_Witness ==
  /\ build = "ctx" /\ user # NoSession /\ role = NULL
  /\ roleCalls = {} /\ notifQ = <<>> /\ ~loading

\* C3: when the role lookup of a signed-in identity returns an error, the
\* step that processes it leaves role null and loading false, and AdminRoute
\* then does not render the outlet: an authenticated user is sent to "/".
C3_FailedLookupDenied ==
  [][LookupFails =>
       /\ role' = NULL /\ ~loading'
       /\ AdminRoute' # "Outlet"
       /\ (user' # NoSession => AdminRoute' = "/")]_vars

\* C3 witness: the account whose profile role is admin is signed in, its
\* lookup failed, and AdminRoute redirects it to "/".
C3_Witness ==
  /\ build = "ctx" /\ user.uid = "u1" /\ ProfileRole(user.uid) = "admin"
  /\ role = NULL /\ roleCalls = {} /\ AdminRoute = "/"

\* C4: signOut() only asks the auth client to end the session: neither of its
\* steps changes user, session, role or loading.
C4_SignOutLeavesState ==
  [][(signOut \/ signOutReturn \/ signOutReturn_p2) => UNCHANGED authState]_vars

\* C5: in the step in which the Cart Store sees the identity become absent,
\* the in-memory items become empty, whatever they and the durable cart held.
C5_SignOutEmptiesCart ==
  [][(user # NoSession /\ user' = NoSession) => items' = <<>>]_vars

\* C5 witness: the identity is gone and the items are empty while a cart
\* request of the signed-in user is still under way and the durable cart of
\* that user is not empty.
C5_Witness ==
  /\ user = NoSession /\ items = <<>> /\ ~loading
  /\ \E c \in Calls : c.op = "add" /\ cartDb[c.uid] # EmptyCart

\* C6: when the merge upsert is executed on an empty durable cart, that cart
\* becomes the guest cart as a map productId -> quantity; when the merge
\* returns without error the in-memory items are cleared and the durable
\* cart is fetched; the fetch reads the durable cart and its rows become
\* the items.
C6_MergeIntoEmptyCart ==
  [][\A c \in Calls :
       /\ (c.op = "merge" /\ upsert(c) /\ cartDb[c.uid] = EmptyCart)
            => \A p \in Products : cartDb'[c.uid][p] = QuantityOf(c.rows, p)
       /\ mergeAndClearLocalCartResume(c, FALSE)
            => /\ items' = <<>>
               /\ \E f \in BagToSet(cartCalls') :
                     f.op = "fetch" /\ f.uid = c.uid /\ f.st = "sent"
       /\ (c.op = "fetch" /\ build = "p3" /\ select(c))
            => \E f \in BagToSet(cartCalls') :
                 /\ f.op = "fetch" /\ f.st = "ok"
                 /\ \A p \in Products : QuantityOf(f.data, p) = cartDb[c.uid][p]
       /\ fetchCartResume(c, FALSE) => items' = c.data]_vars

\* C6 witness: the guest added P1 twice and signed in; the merge has written
\* into a durable cart that was empty, which now is exactly {P1: 2}.
C6_Witness ==
  /\ user # NoSession
  /\ \E c \in Calls :
       /\ c.op = "merge" /\ c.st = "ok" /\ c.uid = user.uid
       /\ c.rows = <<[id |-> "P1", quantity |-> 2]>>
       /\ cartDb[c.uid] = [p \in Products |-> IF p = "P1" THEN 2 ELSE 0]

\* C7: when the merge upsert is executed on a durable cart that is not empty,
\* every product of the guest cart gets exactly the guest quantity, and every
\* other durable line keeps its quantity.
C7_MergeOverwrites ==
  [][\A c \in Calls :
       (c.op = "merge" /\ upsert(c) /\ cartDb[c.uid] # EmptyCart)
         => \A p \in Products :
              cartDb'[c.uid][p] = IF HasLine(c.rows, p) THEN QuantityOf(c.rows, p)
                                                       ELSE cartDb[c.uid][p]]_vars

\* C7 witness: the durable cart held one P1 and one P2, the guest cart two
\* P1; after the merge upsert the durable cart holds two P1 and one P2.
C7_Witness ==
  \E c \in Calls :
    /\ c.op = "merge" /\ c.st = "ok"
    /\ c.rows = <<[id |-> "P1", quantity |-> 2]>>
    /\ cartDb[c.uid] = [p \in Products |-> IF p = "P1" THEN 2 ELSE 1]

\* C8: a merge upsert is sent only in a step in which the identity goes from
\* absent to present while the guest cart is not empty; no step taken while
\* the user stays signed in sends one.
MergeSent ==
  \E c \in BagToSet(cartCalls') :
    c.op = "merge" /\ c.st = "sent" /\ CopiesIn(c, cartCalls') > CopiesIn(c, cartCalls)
C8_MergeOncePerSignIn ==
  [][MergeSent => (user = NoSession /\ user' # NoSession /\ items # <<>>)]_vars

\* C9: when the merge upsert returns an error, the step that processes it
\* raises the error toast, leaves the items as they are, and neither clears
\* them nor sends the fetch.
C9_FailedMergeKeepsItems ==
  [][\A c \in Calls :
       mergeAndClearLocalCartResume(c, TRUE)
         => /\ toast' = "Could not merge your cart items."
            /\ items' = items
            /\ cartCalls' = Done(c)
            /\ cartLoading' = cartLoading
            /\ cartDb' = cartDb]_vars

\* C9 witness: the merge failure has just been reported, the guest items are
\* still in memory and no cart request is under way.
C9_Witness ==
  /\ toast = "Could not merge your cart items."
  /\ user # NoSession /\ items # <<>> /\ cartCalls = EmptyBag

\* C10: with no identity, each addItem for a product adds one to the quantity
\* of its single line (a new line of quantity 1 if there was none), so n
\* calls in a row leave one line of quantity n.
C10_GuestAddItemCounts ==
  [][\A id \in Products :
       (user = NoSession /\ (addItem(id) \/ addItem_p3(id)))
         => /\ QuantityOf(items', id) = QuantityOf(items, id) + 1
            /\ Cardinality({i \in 1..Len(items') : items'[i].id = id}) = 1]_vars

\* C11: for every product and every q <= 0, a step is an updateQuantity(id, q)
\* step exactly when it is a removeItem(id) step, in both CartProviders, with
\* and without an identity; as a guest of part_003 it leaves no line for id.
C11_UpdateToZeroIsRemove ==
  [][\A id \in Products : \A q \in Quantities :
       q <= 0 =>
         /\ updateQuantity(id, q) <=> removeItem(id)
         /\ updateQuantity_p3(id, q) <=> removeItem_p3(id)
         /\ (updateQuantity_p3(id, q) /\ user = NoSession) => ~HasLine(items', id)
         /\ (updateQuantity_p3(id, q) \/ updateQuantity(id, q)) /\ user # NoSession
              => /\ items' = items
                 /\ cartCalls' = Sent(Call("remove", user.uid,
                                           <<[id |-> id, quantity |-> 0]>>, <<>>))]_vars

\* C11 witness: the delete of a signed-in user's line has been executed (the
\* durable row is gone) and the line is still shown, its callback not yet resumed.
C11_Witness ==
  /\ user # NoSession
  /\ \E c \in Calls :
       /\ c.op = "remove" /\ c.st = "ok" /\ c.uid = user.uid
       /\ cartDb[c.uid][c.rows[1].id] = 0 /\ HasLine(items, c.rows[1].id)

\* the sum of price x quantity over a set of lines of the items
RECURSIVE SumLines(_, _)
SumLines(its, S) ==
  IF S = {} THEN 0
  ELSE LET i == CHOOSE x \in S : TRUE
       IN Price(its[i].id) * its[i].quantity + SumLines(its, S \ {i})

\* C12: in every reachable state the total the Cart Store exposes is the sum
\* over the current items of price x quantity.
C12_TotalIsSum == total(items) = SumLines(items, 1..Len(items))

\* C12 witness: two lines, two P1 and one P2, and a total of 2 x 45 + 52.
C12_Witness ==
  /\ Len(items) = 2 /\ QuantityOf(items, "P1") = 2 /\ QuantityOf(items, "P2") = 1
  /\ total(items) = 142

ClearReturns(c, failed) == clearCartResume(c, failed) \/ clearCartResume_p3(c, failed)
OrderSaved == orders # <<>> /\ orders[Len(orders)].lines # <<>>

\* C14 as stated: once an order is saved with its lines, the step in which
\* the clearCart() that followed returns leaves no line in the items and none
\* in the user's durable cart.
C14_CheckoutEmptiesCart ==
  [][\A c \in Calls : \A failed \in BOOLEAN :
       (OrderSaved /\ ClearReturns(c, failed))
         => items' = <<>> /\ cartDb'[c.uid] = EmptyCart]_vars

\* C14 amended: a successful checkout submission calls clearCart(): for a
\* signed-in user it sends the delete of that user's durable cart, for a guest
\* of part_003 it empties the items; when the delete is executed the durable
\* cart has no row left, and when it returns without error the items are
\* emptied (when it returns an error they are left as they are).
C14_CheckoutClearsOnSuccess ==
  [][/\ onSubmit("ok") =>
          IF user # NoSession
          THEN cartCalls' = Sent(Call("clear", user.uid, <<>>, <<>>)) /\ items' = items
          ELSE build = "p3" => items' = <<>>
     /\ \A c \in Calls :
          /\ (c.op = "clear" /\ delete(c)) => cartDb'[c.uid] = EmptyCart
          /\ ClearReturns(c, FALSE) => items' = <<>>
          /\ ClearReturns(c, TRUE) => items' = items /\ cartDb' = cartDb]_vars

\* C14 witness: an order with its lines is saved, the clearCart() of the
\* signed-in user has returned, and the items and the durable cart are empty.
C14_Witness ==
  /\ OrderSaved /\ user # NoSession /\ orders[1].uid = user.uid
  /\ items = <<>> /\ cartDb[user.uid] = EmptyCart /\ cartCalls = EmptyBag

\* C15: no request of an authenticated caller whose role is not 'admin'
\* changes that caller's own role in profiles.
C15_RoleOnlyByElevation ==
  [][\A caller \in Callers : \A id \in Users : \A r \in Roles :
       (Authenticated(caller) /\ CallerRole(caller) # "admin" /\ updateProfile(caller, id, r))
         => profiles'[caller] = profiles[caller]]_vars

\* C16: an insert, update or delete on products or categories sent by a caller
\* whose profile role is not 'admin' (another authenticated user, or nobody
\* signed in) does not succeed and leaves both tables unchanged; an admin's
\* insert of a missing row does succeed.
C16_OnlyAdminsWriteCatalogue ==
  [][\A caller \in Callers : \A op \in WriteOps :
       /\ \A p \in Products : \A v \in PriceValues :
            writeProducts(caller, p, op, v) =>
              /\ CallerRole(caller) # "admin"
                   => UNCHANGED <<products, categories>> /\ reply'.status # "ok"
              /\ (CallerRole(caller) = "admin" /\ op = "insert" /\ products[p] = 0)
                   => products'[p] = v /\ reply'.status = "ok"
       /\ \A c \in Categories : \A v \in Revisions :
            writeCategories(caller, c, op, v) =>
              /\ CallerRole(caller) # "admin"
                   => UNCHANGED <<products, categories>> /\ reply'.status # "ok"
              /\ (CallerRole(caller) = "admin" /\ op = "insert" /\ categories[c] = 0)
                   => categories'[c] = v /\ reply'.status = "ok"]_vars

\* C16 witness: the registered non-admin u2 has just tried to insert the
\* product P1, which an admin had deleted: the insert is refused and P1 is
\* still missing.
C16_Witness ==
  /\ reply = [caller |-> "u2", on |-> "products", op |-> "insert", status |-> "error"]
  /\ profiles["u2"] = "user" /\ products["P1"] = 0

\* C17: an upload, update or delete in the bucket product-images sent by an
\* authenticated caller whose role is not 'admin' leaves the bucket unchanged.
C17_OnlyAdminsWriteImages ==
  [][\A caller \in Callers : \A f \in Paths : \A op \in WriteOps : \A v \in Revisions :
       (writeImages(caller, f, op, v) /\ CallerRole(caller) # "admin")
         => images' = images]_vars

\* a cart mutation of a signed-in user starts / returns from its remote write
MutationStarts ==
  \/ \E id \in Products :
       addItem(id) \/ addItem_p3(id) \/ removeItem(id) \/ removeItem_p3(id)
  \/ \E id \in Products : \E q \in Quantities : updateQuantity(id, q) \/ updateQuantity_p3(id, q)
  \/ clearCart \/ clearCart_p3
MutationReturns(c, failed) ==
  \/ addItemResume(c, failed) \/ addItemResume_p3(c, failed)
  \/ removeItemResume(c, failed) \/ removeItemResume_p3(c, failed)
  \/ updateQuantityResume(c, failed) \/ updateQuantityResume_p3(c, failed)
  \/ clearCartResume(c, failed) \/ clearCartResume_p3(c, failed)

\* C18: when the remote write of a signed-in user's cart mutation returns
\* without error, the step leaves the items as they are and sends the fetch of
\* that user's durable cart; the items change only when the fetched rows arrive.
C18_MutationsRefetch ==
  [][\A c \in Calls :
       MutationReturns(c, FALSE)
         => /\ items' = items
            /\ cartCalls' = Done(c) (+) SetToBag({Call("fetch", c.uid, <<>>, <<>>)})]_vars

\* C19: a cart mutation of a signed-in user changes no item before its remote
\* write returns, and none when the write returns an error: the failure is
\* reported by a toast and the items stay as they are.
C19_FailedWriteKeepsItems ==
  [][/\ (user # NoSession /\ MutationStarts) => items' = items
     /\ \A c \in Calls :
          MutationReturns(c, TRUE)
            => items' = items /\ cartDb' = cartDb /\ cartCalls' = Done(c)
               /\ toast' \in {"Failed to add item to cart.", "Failed to remove item.",
                              "Failed to update quantity.", "Failed to clear cart."}]_vars

\* C19 witness: the delete of a line of the signed-in user has just failed;
\* the line is still in the items and in the durable cart.
C19_Witness ==
  /\ toast = "Failed to remove item." /\ user # NoSession /\ cartCalls = EmptyBag
  /\ \E p \in Products : HasLine(items, p) /\ cartDb[user.uid][p] > 0

\* C20: with no identity, addItem, removeItem, updateQuantity and clearCart
\* send no request and change no table: only the items (and the toast) change.
C20_GuestMutationsAreLocal ==
  [][(user = NoSession /\ MutationStarts)
       => /\ cartCalls' = cartCalls /\ cartDb' = cartDb
          /\ UNCHANGED <<adminLogin, backend, authState, authEnv, cartLoading>>]_vars

\* C20 witness: a guest of part_003 has just removed one of two lines; no
\* request is under way and the durable cart of the account is as it was.
C20_Witness ==
  /\ build = "p3" /\ user = NoSession /\ authSession = NoSession
  /\ toast = "Removed from cart" /\ Len(items) = 1
  /\ cartCalls = EmptyBag /\ cartDb["u2"] = PriorCart

\* C21: a signed-in addItem leaves the items as they are and sends the upsert
\* of the quantity q + 1, q being the quantity the items hold for the product;
\* the backend sets the row to the quantity it is sent, whatever the row held.
\* Two calls that start from the same items therefore send the same q + 1, and
\* the durable quantity is q + 1 after the second upsert as after the first.
C21_ConcurrentAddsLastWriteWins ==
  [][/\ \A id \in Products :
          (user # NoSession /\ (addItem(id) \/ addItem_p3(id)))
            => /\ items' = items /\ cartDb' = cartDb
               /\ \E c \in BagToSet(cartCalls') :
                    /\ c.op = "add" /\ c.st = "sent" /\ c.uid = user.uid
                    /\ c.rows = <<[id |-> id, quantity |-> QuantityOf(items, id) + 1]>>
                    /\ cartCalls' = Sent(c)
     /\ \A c \in Calls :
          (c.op = "add" /\ upsert(c))
            => \A p \in Products :
                 cartDb'[c.uid][p] = IF p = c.rows[1].id THEN c.rows[1].quantity
                                                         ELSE cartDb[c.uid][p]]_vars

\* C21 witness: two addItem calls for P1 were made from the same items (q = 1),
\* both upserts of quantity 2 have been executed and neither call has resumed:
\* the durable quantity is 2.
C21_Witness ==
  /\ user # NoSession /\ QuantityOf(items, "P1") = 1
  /\ \E c \in Calls :
       /\ c.op = "add" /\ c.st = "ok" /\ c.uid = user.uid
       /\ c.rows = <<[id |-> "P1", quantity |-> 2]>>
       /\ CopiesIn(c, cartCalls) = 2
       /\ cartDb[c.uid]["P1"] = 2

\* the guest lines of a merge whose quantity the durable cart does not hold
Unmerged(c) ==
  {p \in Products : HasLine(c.rows, p) /\ cartDb[c.uid][p] # QuantityOf(c.rows, p)}

\* a step that writes one of those lines into the durable cart and not another
PartialMergeStep(c) ==
  /\ Next
  /\ \E p \in Unmerged(c) : \E p2 \in Unmerged(c) :
       /\ cartDb'[c.uid][p] = QuantityOf(c.rows, p)
       /\ cartDb'[c.uid][p2] # QuantityOf(c.rows, p2)

\* C22 as stated: a merge can fail partially; while the merge of two guest
\* lines the durable cart does not hold is under way, a step is possible that
\* writes one of them and not the other.
C22_MergeCanFailPartially ==
  \A c \in Calls :
    (c.op = "merge" /\ c.st = "sent" /\ Cardinality(Unmerged(c)) >= 2)
      => ENABLED PartialMergeStep(c)

\* C22 amended: the merge is one upsert of all the guest lines. The step that
\* executes it writes every guest line; the step in which it returns an error
\* belongs to a merge that wrote none, changes no durable row and leaves the
\* guest items uncleared.
C22_MergeAllOrNothing ==
  [][\A c \in Calls :
       c.op = "merge" =>
         /\ upsert(c) => \A p \in Products :
                           HasLine(c.rows, p) => cartDb'[c.uid][p] = QuantityOf(c.rows, p)
         /\ mergeAndClearLocalCartResume(c, TRUE)
              => cartDb' = cartDb /\ items' = items /\ c.st = "sent"]_vars

\* C22 witness: the merge of two guest lines has just failed; the guest lines
\* are still in the items and the durable cart holds neither of them.
C22_Witness ==
  /\ toast = "Could not merge your cart items." /\ user # NoSession
  /\ Len(items) = 2 /\ cartCalls = EmptyBag
  /\ \A p \in Products : cartDb[user.uid][p] # QuantityOf(items, p)

\* C23: whenever AdminRoute renders the admin outlet, the profile role of the
\* stored identity is 'admin', also while a lookup is under way and when the
\* lookups of successive notifications return out of order.
C23_OutletOnlyForAdmins ==
  AdminRoute = "Outlet" => profiles[user.uid] = "admin"

\* C24: whenever no role lookup is under way, the stored role is null if no
\* identity is stored, and otherwise it is what the lookup for the stored
\* identity returned: that identity's profile role, or null after an error.
\* A lookup started for an earlier notification does not decide it.
C24_RoleOfLatestLookup ==
  roleCalls = {} =>
    IF user = NoSession THEN role = NULL
    ELSE role \in {profiles[user.uid], NULL}

\* the response to a cart request (a fetch, a merge or a mutation) arrives
CartResponse(c, failed) ==
  \/ fetchUserCartResume(c, failed) \/ fetchCartResume(c, failed)
  \/ mergeAndClearLocalCartResume(c, failed)
  \/ MutationReturns(c, failed)

\* C25: when the response to a cart request arrives while no identity is
\* stored and the items are empty (the sign-out has emptied them), the step
\* that handles it leaves the items empty.
C25_LateResponseKeepsCartEmpty ==
  [][\A c \in Calls : \A failed \in BOOLEAN :
       (user = NoSession /\ items = <<>> /\ CartResponse(c, failed))
         => items' = <<>>]_vars

\* C26: with a backend that never answers with an error, whenever a user is
\* signed in and nothing is under way (no notification, no lookup, no cart
\* request, the cart not loading), the items hold for every product the
\* quantity of the user's durable cart.
C26_ItemsMatchDurableCart ==
  (/\ user # NoSession /\ ~loading /\ ~cartLoading
   /\ notifQ = <<>> /\ roleCalls = {} /\ soPending = 0 /\ cartCalls = EmptyBag)
    => \A p \in Products : QuantityOf(items, p) = cartDb[user.uid][p]

\* C27: every order onSubmit has saved has its lines saved too; a submission
\* in which a request fails saves no order and leaves the items, the durable
\* cart and the cart requests as they were.
C27_CheckoutAllOrNothing ==
  [][\A outcome \in CheckoutOutcomes :
       onSubmit(outcome)
         => /\ \A i \in 1..Len(orders') : orders'[i].lines # <<>>
            /\ outcome # "ok"
                 => orders' = orders /\ UNCHANGED <<items, cartDb, cartCalls>>]_vars

\* C28: while authentication or the cart is still loading, the Checkout page
\* does not redirect a signed-in user whose durable cart has rows.
C28_NoRedirectWhileLoading ==
  (/\ loading \/ cartLoading
   /\ authSession # NoSession
   /\ cartDb[authSession.uid] # EmptyCart)
    => CheckoutRedirect # "/products"

\* C29: AdminLogin.handleLogin navigates to the dashboard exactly when its
\* role lookup returned 'admin'; when the lookup fails or returns another role
\* it asks the auth client to end the session (the sign-out notification is
\* queued). Once it has finished with a refusal and the notifications are
\* handled, and nobody has signed in since, no identity is stored.
C29_AdminLoginDeniesNonAdmins ==
  /\ [][\A res \in RoleResults(adminLogin.sess.uid) :
          AdminLogin_getUserRoleReturn(res)
            => IF res = "admin"
               THEN adminLogin'.nav = DashboardPath /\ authSession' = authSession
               ELSE /\ adminLogin'.nav = "none"
                    /\ authSession' = NoSession
                    /\ notifQ' = Append(notifQ, NoSession)]_vars
  /\ [](adminLogin.nav = DashboardPath => profiles[adminLogin.sess.uid] = "admin")
  /\ []((/\ adminLogin.pc = "done" /\ adminLogin.sess # NoSession /\ adminLogin.nav = "none"
         /\ notifQ = <<>> /\ authSession \in {NoSession, adminLogin.sess})
          => user = NoSession)

\* C29 witness: the non-admin u2 signed in through AdminLogin, the lookup
\* returned 'user', the sign-out was requested and both notifications have
\* been handled: no identity is stored and the page shows the refusal.
C29_Witness ==
  /\ adminLogin.pc = "done" /\ adminLogin.sess.uid = "u2" /\ adminLogin.role = "user"
  /\ adminLogin.error = "Access denied. You do not have admin privileges."
  /\ notifQ = <<>> /\ roleCalls = {} /\ user = NoSession /\ authSession = NoSession

\* C30: ProtectedRoute redirects to /login only when loading is false and no
\* identity is stored, and renders the protected page only when loading is
\* false and an identity is stored; while the session the visitor arrived
\* with is still the auth client's session, it never redirects to /login.
C30_ProtectedRouteWaits ==
  /\ ProtectedRoute = "/login" => (~loading /\ user = NoSession)
  /\ ProtectedRoute = "Outlet" => (~loading /\ user # NoSession)
  /\ (authSession # NoSession /\ authSession.ver = 0) => ProtectedRoute # "/login"

\* C30 witness: the cached session has been stored and its role lookup is
\* still under way: loading is true and ProtectedRoute shows the loading text.
C30_Witness ==
  /\ authSession # NoSession /\ authSession.ver = 0 /\ user = authSession
  /\ loading /\ roleCalls # {} /\ ProtectedRoute = "Loading..."

====
